---------------------------- MODULE Spec2Model ----------------------------
(***************************************************************************)
(* Model of triangle_strip.py: find_strip(triangles), an iterative-        *)
(* deepening loop around the recursive backtracking search                 *)
(* find_strip_internal(current_strip, used_triangles, max_triangle_usage). *)
(*                                                                         *)
(* The recursion is modelled by an explicit stack of frames, one frame per *)
(* active invocation of find_strip_internal that is inside one of its two  *)
(* for-loops.  Python lists are objects: the model keeps the contents of   *)
(* the list created by find_strip (tmp_triangle_strip) apart from the      *)
(* contents of the list the search currently works on (current_strip) and  *)
(* records in `aliased` whether the two are still the same object.         *)
(*                                                                         *)
(* Triangle indices are 1..N here and 0..N-1 in the Python code.           *)
(***************************************************************************)
EXTENDS Integers, Sequences, FiniteSets

VARIABLES
    triangles,           \* the argument of find_strip: a sequence of triples
    usage,               \* find_strip's local `usage` (the cap of the next round)
    result,              \* find_strip's local `result`
    max_triangle_usage,  \* the cap passed to the running search
    used_triangles,      \* the dict tmp_used_triangles / used_triangles
    tmp_triangle_strip,  \* contents of the list object created at line 193
    current_strip,       \* contents of the list object the search works on
    aliased,             \* TRUE while current_strip is the object of line 193
    stack,               \* frames of the invocations that are inside a loop
    pc,                  \* control position
    invocation,          \* 1 for the first call of find_strip, 2 for a repeated one
    first_result,        \* what the first call returned, kept by the caller
    entered              \* per running invocation of find_strip_internal: the
                         \* contents of its two arguments when it was entered

vars == <<triangles, usage, result, max_triangle_usage, used_triangles,
          tmp_triangle_strip, current_strip, aliased, stack, pc,
          invocation, first_result, entered>>

----------------------------------------------------------------------------
(* Bounds of the model. *)

MaxTriangles == 4

MaxUsage == 3

(* Inputs of at most MaxRepeating triangles may list a triangle more than   *)
(* once; longer inputs list distinct triangles.                            *)
MaxRepeating == 2

(* The largest number of triangles in an input that has triangles with a   *)
(* repeated vertex.                                                        *)
MaxDegenerate == 2

(* The triangles the inputs are built from: the four side faces of a       *)
(* pyramid with apex 0 (one of them listed in another vertex order) and a  *)
(* face that shares no vertex with <<0,1,2>>.  Every triangle has three    *)
(* distinct vertices.                                                      *)
TriangleUniverse ==
    { <<0, 1, 2>>, <<0, 2, 3>>, <<0, 3, 4>>, <<4, 1, 0>>, <<3, 4, 5>> }

(* Triangles for the inputs that are not validated: three with a repeated  *)
(* vertex, one of which shares no vertex with the others, next to two with *)
(* three distinct vertices.                                                *)
DegenerateUniverse ==
    { <<0, 1, 2>>, <<1, 2, 3>>, <<1, 2, 2>>, <<2, 2, 2>>, <<4, 5, 5>> }

Distinct(s) == \A j, k \in 1..Len(s) : j # k => s[j] # s[k]

RECURSIVE SeqsUpTo(_, _)
SeqsUpTo(S, n) ==
    IF n = 0 THEN { <<>> }
    ELSE LET shorter == SeqsUpTo(S, n - 1)
         IN  shorter \cup
             { Append(s, x) : s \in { t \in shorter : Len(t) = n - 1 /\ Distinct(t) }, x \in S }

Inputs ==
    { t \in SeqsUpTo(TriangleUniverse, MaxTriangles) : Len(t) <= MaxRepeating \/ Distinct(t) }

DegenerateInputs == SeqsUpTo(DegenerateUniverse, MaxDegenerate)

----------------------------------------------------------------------------
(* Helpers. *)

N == Len(triangles)

SetOf(t) == { t[1], t[2], t[3] }

NoneResult == [is_none |-> TRUE, strip |-> <<>>]

StripResult(s) == [is_none |-> FALSE, strip |-> s]

(* Mutation: only the first ordering of a seed triangle is ever tried. *)
Permutations_FirstOnly ==
    << <<1, 2, 3>>, <<1, 2, 3>>, <<1, 2, 3>>, <<1, 2, 3>>, <<1, 2, 3>>, <<1, 2, 3>> >>

(* Mutation: the second and the third ordering change places. *)
Permutations_Swapped ==
    << <<1, 2, 3>>, <<2, 1, 3>>, <<1, 3, 2>>, <<2, 3, 1>>, <<3, 1, 2>>, <<3, 2, 1>> >>

(* The six orderings tried for a seed triangle, in the order of the code. *)
Permutations ==
    << <<1, 2, 3>>, <<1, 3, 2>>, <<2, 1, 3>>, <<2, 3, 1>>, <<3, 1, 2>>, <<3, 2, 1>> >>

(* Mutation: the third vertex of an ordering repeats the second. *)
Permuted_RepeatedIndex(t, p) ==
    << t[Permutations[p][1]], t[Permutations[p][2]], t[Permutations[p][2]] >>

Permuted(t, p) == << t[Permutations[p][1]], t[Permutations[p][2]], t[Permutations[p][3]] >>

Top == stack[Len(stack)]

Pop(s) == SubSeq(s, 1, Len(s) - 1)

ReplaceTop(f) == [stack EXCEPT ![Len(stack)] = f]

SeedFrame(i, p) == [case |-> "seed", i |-> i, perm |-> p]

ExtFrame(i) == [case |-> "ext", i |-> i, perm |-> 0]

(* Mutation: the coverage check looks at the first triangle only. *)
(* Mutation: an input without triangles counts as not yet covered. *)
UnusedTrianglesExisting_EmptyUncovered ==
    N = 0 \/ \E i \in 1..N : used_triangles[i] = 0

UnusedTrianglesExisting_FirstOnly == N >= 1 /\ used_triangles[1] = 0

(* used_triangles[i] == 0 for some i (lines 59-63). *)
UnusedTrianglesExisting == \E i \in 1..N : used_triangles[i] = 0

(* Mutation: the cap is taken to be 1 whatever the round. *)
UsedUp_IgnoresCap(i) == used_triangles[i] >= 1

(* Mutation: > in place of >=. *)
UsedUp_OffByOne(i) == used_triangles[i] > max_triangle_usage

(* used_triangles[i] >= max_triangle_usage (line 142). *)
UsedUp(i) == used_triangles[i] >= max_triangle_usage

(* Mutation: only the last vertex of the strip is looked at. *)
PartOfTriangle_LastOnly == { current_strip[Len(current_strip)] }

(* {current_strip[-1], current_strip[-2]} (line 148). *)
PartOfTriangle == { current_strip[Len(current_strip)], current_strip[Len(current_strip) - 1] }

(* triangle_as_set.issuperset(part_of_triangle) (line 149). *)
IsSuperset(i) == PartOfTriangle \subseteq SetOf(triangles[i])

(* Mutation: nothing is taken out of the triangle. *)
Difference_Whole(i) == SetOf(triangles[i])

(* Mutation: only the last vertex of the strip is taken out of the triangle. *)
Difference_LastOnly(i) == SetOf(triangles[i]) \ { current_strip[Len(current_strip)] }

(* triangle_as_set.difference(part_of_triangle) (line 156). *)
Difference(i) == SetOf(triangles[i]) \ PartOfTriangle

(* The arguments of an invocation as it is entered (line 56). *)
Entry(strip, used) == [strip |-> strip, used |-> used]

(* A list mutated in place: the caller's list sees it while aliased. *)
InPlace(new) ==
    /\ current_strip' = new
    /\ tmp_triangle_strip' = IF aliased THEN new ELSE tmp_triangle_strip

----------------------------------------------------------------------------
Init ==
    /\ triangles \in Inputs
    /\ usage = 1
    /\ result = NoneResult
    /\ max_triangle_usage = 0
    /\ used_triangles = [i \in 1..N |-> 0]
    /\ tmp_triangle_strip = <<>>
    /\ current_strip = <<>>
    /\ aliased = TRUE
    /\ stack = <<>>
    /\ pc = "loop"
    /\ invocation = 1
    /\ first_result = NoneResult
    /\ entered = <<>>

(* Lines 185-196: one more round of the while loop. *)
StartRound ==
    /\ pc = "loop"
    /\ result.is_none
    /\ usage <= MaxUsage
    /\ used_triangles' = [i \in 1..N |-> 0]
    /\ tmp_triangle_strip' = <<>>
    /\ current_strip' = <<>>
    /\ aliased' = TRUE
    /\ max_triangle_usage' = usage
    /\ stack' = <<>>
    /\ pc' = "call"
    /\ entered' = << Entry(<<>>, [i \in 1..N |-> 0]) >>
    /\ UNCHANGED <<triangles, invocation, first_result, usage, result>>

(* Lines 58-67: every triangle is covered, the invocation returns the strip. *)
ReturnCovered ==
    /\ pc = "call"
    /\ ~UnusedTrianglesExisting
    /\ pc' = "ret_strip"
    /\ UNCHANGED <<triangles, entered, invocation, first_result, usage, result, max_triangle_usage, used_triangles,
                   tmp_triangle_strip, current_strip, aliased, stack>>

(* Lines 69-72: the strip is empty, enter the loop over the seed triangles. *)
EnterSeedCase ==
    /\ pc = "call"
    /\ UnusedTrianglesExisting
    /\ Len(current_strip) = 0
    /\ stack' = Append(stack, SeedFrame(1, 1))
    /\ pc' = "seed"
    /\ UNCHANGED <<triangles, entered, invocation, first_result, usage, result, max_triangle_usage, used_triangles,
                   tmp_triangle_strip, current_strip, aliased>>

(* Mutation: the search extends the strip without the coverage check. *)
EnterExtensionCase_EvenIfCovered ==
    /\ pc = "call"
    /\ Len(current_strip) # 0
    /\ stack' = Append(stack, ExtFrame(1))
    /\ pc' = "ext"
    /\ UNCHANGED <<triangles, entered, invocation, first_result, usage, result, max_triangle_usage, used_triangles,
                   tmp_triangle_strip, current_strip, aliased>>

(* Lines 132-137: the strip is not empty, enter the loop over the extensions. *)
EnterExtensionCase ==
    /\ pc = "call"
    /\ UnusedTrianglesExisting
    /\ Len(current_strip) # 0
    /\ stack' = Append(stack, ExtFrame(1))
    /\ pc' = "ext"
    /\ UNCHANGED <<triangles, entered, invocation, first_result, usage, result, max_triangle_usage, used_triangles,
                   tmp_triangle_strip, current_strip, aliased>>

(* Lines 74, 81-83 (93, 100, 107, 114, 121): mark the triangle, add one     *)
(* ordering of its vertices with += (in place) and recurse.                 *)
SeedTry ==
    /\ pc = "seed"
    /\ Top.i <= N
    /\ used_triangles' = IF Top.perm = 1
                         THEN [used_triangles EXCEPT ![Top.i] = 1]
                         ELSE used_triangles
    /\ InPlace(current_strip \o Permuted(triangles[Top.i], Top.perm))
    /\ pc' = "call"
    /\ entered' = Append(entered, Entry(current_strip', used_triangles'))
    /\ UNCHANGED <<triangles, invocation, first_result, usage, result, max_triangle_usage, aliased, stack>>

(* Mutation: the usage of a failed seed triangle is not reset (line 131). *)
SeedUndo_KeepsUsage ==
    /\ pc = "ret_none"
    /\ stack # <<>>
    /\ Top.case = "seed"
    /\ current_strip' = SubSeq(current_strip, 1, Len(current_strip) - 3)
    /\ aliased' = FALSE
    /\ stack' = IF Top.perm < 6
                THEN ReplaceTop(SeedFrame(Top.i, Top.perm + 1))
                ELSE ReplaceTop(SeedFrame(Top.i + 1, 1))
    /\ pc' = "seed"
    /\ entered' = Pop(entered)
    /\ UNCHANGED <<triangles, invocation, first_result, usage, result, max_triangle_usage,
                   tmp_triangle_strip, used_triangles>>

(* Lines 90, 98, ..., 126 and 131: the recursive call returned None; the    *)
(* slice binds the local name to a new list, the list passed in keeps its   *)
(* contents.  After the sixth ordering the usage of the triangle is reset.  *)
SeedUndo ==
    /\ pc = "ret_none"
    /\ stack # <<>>
    /\ Top.case = "seed"
    /\ current_strip' = SubSeq(current_strip, 1, Len(current_strip) - 3)
    /\ aliased' = FALSE
    /\ IF Top.perm < 6
       THEN /\ stack' = ReplaceTop(SeedFrame(Top.i, Top.perm + 1))
            /\ UNCHANGED used_triangles
       ELSE /\ stack' = ReplaceTop(SeedFrame(Top.i + 1, 1))
            /\ used_triangles' = [used_triangles EXCEPT ![Top.i] = 0]
    /\ pc' = "seed"
    /\ entered' = Pop(entered)
    /\ UNCHANGED <<triangles, invocation, first_result, usage, result, max_triangle_usage, tmp_triangle_strip>>

(* Lines 72 and 176: every seed was tried, the invocation returns None. *)
SeedExhausted ==
    /\ pc = "seed"
    /\ Top.i > N
    /\ stack' = Pop(stack)
    /\ pc' = "ret_none"
    /\ UNCHANGED <<triangles, entered, invocation, first_result, usage, result, max_triangle_usage, used_triangles,
                   tmp_triangle_strip, current_strip, aliased>>

(* Lines 142-143: the triangle is used up, continue. *)
ExtSkipUsed ==
    /\ pc = "ext"
    /\ Top.i <= N
    /\ UsedUp(Top.i)
    /\ stack' = ReplaceTop(ExtFrame(Top.i + 1))
    /\ UNCHANGED <<triangles, entered, invocation, first_result, usage, result, max_triangle_usage, used_triangles,
                   tmp_triangle_strip, current_strip, aliased, pc>>

(* Lines 147-152: the triangle does not hold the last two vertices, continue. *)
ExtSkipNotAdjacent ==
    /\ pc = "ext"
    /\ Top.i <= N
    /\ ~UsedUp(Top.i)
    /\ ~IsSuperset(Top.i)
    /\ stack' = ReplaceTop(ExtFrame(Top.i + 1))
    /\ UNCHANGED <<triangles, entered, invocation, first_result, usage, result, max_triangle_usage, used_triangles,
                   tmp_triangle_strip, current_strip, aliased, pc>>

(* Lines 155-165: take the first element of the set difference (any element *)
(* of it: a set has no order), count the triangle, append, recurse.        *)
ExtAppend ==
    /\ pc = "ext"
    /\ Top.i <= N
    /\ ~UsedUp(Top.i)
    /\ IsSuperset(Top.i)
    /\ \E triangle_vertex \in Difference(Top.i) :
           InPlace(Append(current_strip, triangle_vertex))
    /\ used_triangles' = [used_triangles EXCEPT ![Top.i] = @ + 1]
    /\ pc' = "call"
    /\ entered' = Append(entered, Entry(current_strip', used_triangles'))
    /\ UNCHANGED <<triangles, invocation, first_result, usage, result, max_triangle_usage, aliased, stack>>

(* Mutation: the usage counter is not decremented on backtracking. *)
ExtUndo_NoDecrement ==
    /\ pc = "ret_none"
    /\ stack # <<>>
    /\ Top.case = "ext"
    /\ InPlace(Pop(current_strip))
    /\ stack' = ReplaceTop(ExtFrame(Top.i + 1))
    /\ pc' = "ext"
    /\ entered' = Pop(entered)
    /\ UNCHANGED <<triangles, invocation, first_result, usage, result, max_triangle_usage,
                   aliased, used_triangles>>

(* Mutation: the appended vertex is not popped on backtracking. *)
ExtUndo_NoPop ==
    /\ pc = "ret_none"
    /\ stack # <<>>
    /\ Top.case = "ext"
    /\ used_triangles' = [used_triangles EXCEPT ![Top.i] = @ - 1]
    /\ stack' = ReplaceTop(ExtFrame(Top.i + 1))
    /\ pc' = "ext"
    /\ entered' = Pop(entered)
    /\ UNCHANGED <<triangles, invocation, first_result, usage, result, max_triangle_usage,
                   aliased, tmp_triangle_strip, current_strip>>

(* Mutation: after backtracking the loop stays at the same triangle. *)
ExtUndo_SameTriangle ==
    /\ pc = "ret_none"
    /\ stack # <<>>
    /\ Top.case = "ext"
    /\ InPlace(Pop(current_strip))
    /\ used_triangles' = [used_triangles EXCEPT ![Top.i] = @ - 1]
    /\ stack' = ReplaceTop(ExtFrame(Top.i))
    /\ pc' = "ext"
    /\ entered' = Pop(entered)
    /\ UNCHANGED <<triangles, invocation, first_result, usage, result, max_triangle_usage, aliased>>

(* Lines 172-173: the recursive call returned None; pop and decrement. *)
ExtUndo ==
    /\ pc = "ret_none"
    /\ stack # <<>>
    /\ Top.case = "ext"
    /\ InPlace(Pop(current_strip))
    /\ used_triangles' = [used_triangles EXCEPT ![Top.i] = @ - 1]
    /\ stack' = ReplaceTop(ExtFrame(Top.i + 1))
    /\ pc' = "ext"
    /\ entered' = Pop(entered)
    /\ UNCHANGED <<triangles, invocation, first_result, usage, result, max_triangle_usage, aliased>>

(* Lines 137 and 176: no triangle is left, the invocation returns None. *)
ExtExhausted ==
    /\ pc = "ext"
    /\ Top.i > N
    /\ stack' = Pop(stack)
    /\ pc' = "ret_none"
    /\ UNCHANGED <<triangles, entered, invocation, first_result, usage, result, max_triangle_usage, used_triangles,
                   tmp_triangle_strip, current_strip, aliased>>

(* Lines 87-88 and 167-168: a caller passes the found strip on. *)
Propagate ==
    /\ pc = "ret_strip"
    /\ stack # <<>>
    /\ stack' = Pop(stack)
    /\ entered' = Pop(entered)
    /\ UNCHANGED <<triangles, invocation, first_result, usage, result, max_triangle_usage, used_triangles,
                   tmp_triangle_strip, current_strip, aliased, pc>>

(* Lines 195-199 with None returned: the cap grows, the loop goes on. *)
RoundFailed ==
    /\ pc = "ret_none"
    /\ stack = <<>>
    /\ result' = NoneResult
    /\ usage' = usage + 1
    /\ pc' = "loop"
    /\ entered' = Pop(entered)
    /\ UNCHANGED <<triangles, invocation, first_result, max_triangle_usage, used_triangles,
                   tmp_triangle_strip, current_strip, aliased, stack>>

(* Lines 195-202 with a strip returned: find_strip returns it. *)
RoundSucceeded ==
    /\ pc = "ret_strip"
    /\ stack = <<>>
    /\ result' = StripResult(current_strip)
    /\ usage' = usage + 1
    /\ pc' = "done"
    /\ entered' = Pop(entered)
    /\ UNCHANGED <<triangles, invocation, first_result, max_triangle_usage, used_triangles,
                   tmp_triangle_strip, current_strip, aliased, stack>>

Next ==
    \/ StartRound
    \/ ReturnCovered
    \/ EnterSeedCase
    \/ EnterExtensionCase
    \/ SeedTry
    \/ SeedUndo
    \/ SeedExhausted
    \/ ExtSkipUsed
    \/ ExtSkipNotAdjacent
    \/ ExtAppend
    \/ ExtUndo
    \/ ExtExhausted
    \/ Propagate
    \/ RoundFailed
    \/ RoundSucceeded

Spec == Init /\ [][Next]_vars

(* The interpreter keeps running the program: a step that can be taken is  *)
(* taken.                                                                  *)
FairSpec == Spec /\ WF_vars(Next)

(* find_strip called with a list that may hold triangles with a repeated   *)
(* vertex (the code does not look at the vertices before it searches).     *)
InitDegenerate ==
    /\ triangles \in DegenerateInputs
    /\ usage = 1
    /\ result = NoneResult
    /\ max_triangle_usage = 0
    /\ used_triangles = [i \in 1..N |-> 0]
    /\ tmp_triangle_strip = <<>>
    /\ current_strip = <<>>
    /\ aliased = TRUE
    /\ stack = <<>>
    /\ pc = "loop"
    /\ invocation = 1
    /\ first_result = NoneResult
    /\ entered = <<>>

(* Line 156 with an empty difference: list(...)[0] raises IndexError,      *)
(* which nothing catches; find_strip ends with the exception.              *)
ExtIndexError ==
    /\ pc = "ext"
    /\ Top.i <= N
    /\ ~UsedUp(Top.i)
    /\ IsSuperset(Top.i)
    /\ Difference(Top.i) = {}
    /\ pc' = "error"
    /\ UNCHANGED <<triangles, entered, invocation, first_result, usage, result, max_triangle_usage,
                   used_triangles, tmp_triangle_strip, current_strip, aliased, stack>>

NextDegenerate == Next \/ ExtIndexError

SpecDegenerate == InitDegenerate /\ [][NextDegenerate]_vars

(* The caller calls find_strip a second time with the same list of          *)
(* triangles (lines 181-182 run again) and keeps the first return value.    *)
Reinvoke ==
    /\ pc = "done"
    /\ invocation = 1
    /\ invocation' = 2
    /\ first_result' = result
    /\ usage' = 1
    /\ result' = NoneResult
    /\ pc' = "loop"
    /\ UNCHANGED <<triangles, entered, max_triangle_usage, used_triangles,
                   tmp_triangle_strip, current_strip, aliased, stack>>

NextRepeat == Next \/ Reinvoke

SpecRepeat == Init /\ [][NextRepeat]_vars

----------------------------------------------------------------------------
(* Notions the properties are stated in. *)

(* find_strip has returned result.strip. *)
Returned == pc = "done"

(* The loop stands at its head with every round up to MaxUsage failed: the *)
(* code goes on with the next cap, the model follows it no further.        *)
AllRoundsFailed == pc = "loop" /\ result.is_none /\ usage > MaxUsage

(* The vertex set of the window that ends at position k of strip s. *)
Window(s, k) == { s[k - 2], s[k - 1], s[k] }

Windows(s) == 3..Len(s)

----------------------------------------------------------------------------
(* C1.  Coverage: whenever find_strip returns a strip, every input         *)
(* triangle i has a window of three consecutive strip vertices whose       *)
(* vertex set equals the vertex set of triangle i.                         *)
C1_Coverage ==
    Returned =>
        \A i \in 1..N :
            \E k \in Windows(result.strip) : Window(result.strip, k) = SetOf(triangles[i])

(* A strip of three triangles was returned, one of them not the seed's     *)
(* neighbour in the input order.                                           *)
C1_Witness ==
    /\ Returned
    /\ N = 3
    /\ Len(result.strip) = 5
    /\ Window(result.strip, 3) # SetOf(triangles[1])

----------------------------------------------------------------------------
(* C6.  Result length: a strip returned for N >= 1 triangles has at least  *)
(* 3 + (N - 1) vertices, and exactly N + 2 when the round with cap 1       *)
(* returned it.                                                            *)
C6_ResultLength ==
    (Returned /\ N >= 1) =>
        /\ Len(result.strip) >= 3 + (N - 1)
        /\ (max_triangle_usage = 1 => Len(result.strip) = N + 2)

(* Four triangles covered by six vertices in the first round, after some   *)
(* seed had failed.                                                        *)
C6_Witness ==
    /\ Returned
    /\ N = 4
    /\ max_triangle_usage = 1
    /\ Len(result.strip) = 6
    /\ ~aliased

----------------------------------------------------------------------------
(* C7.  Two triangles with different vertex sets that share exactly two    *)
(* vertices: the first round succeeds and returns a strip of length 4 in   *)
(* which each triangle is used exactly once.                               *)
SharesEdgePair ==
    /\ N = 2
    /\ SetOf(triangles[1]) # SetOf(triangles[2])
    /\ Cardinality(SetOf(triangles[1]) \cap SetOf(triangles[2])) = 2

C7_EdgePair ==
    SharesEdgePair =>
        /\ (pc = "loop" => usage = 1)
        /\ (Returned =>
               /\ Len(result.strip) = 4
               /\ used_triangles = <<1, 1>>
               /\ max_triangle_usage = 1)

C7_Witness ==
    /\ SharesEdgePair
    /\ Returned
    /\ Len(result.strip) = 4

----------------------------------------------------------------------------
(* C8.  A single triangle: the first round returns a strip of length 3     *)
(* that is a permutation of the triangle's vertices.                       *)
C8_SingleTriangle ==
    N = 1 =>
        /\ (pc = "loop" => usage = 1)
        /\ (Returned =>
               /\ Len(result.strip) = 3
               /\ Window(result.strip, 3) = SetOf(triangles[1])
               /\ Cardinality(Window(result.strip, 3)) = 3
               /\ max_triangle_usage = 1)

C8_Witness ==
    /\ N = 1
    /\ Returned
    /\ Len(result.strip) = 3
    /\ used_triangles = <<1>>

----------------------------------------------------------------------------
(* C10.  Cap invariant: in every state of every round, seed placement,     *)
(* extension and backtracking included, 0 <= used_triangles[i] and         *)
(* used_triangles[i] <= max_triangle_usage for every triangle i.           *)
C10_CapInvariant ==
    \A i \in 1..N :
        /\ used_triangles[i] >= 0
        /\ used_triangles[i] <= max_triangle_usage

(* The extension loop stands at a triangle that has reached a cap of 2. *)
C10_Witness ==
    /\ pc = "ext"
    /\ Top.i <= N
    /\ max_triangle_usage = 2
    /\ used_triangles[Top.i] = 2

----------------------------------------------------------------------------
(* Connectivity of the input, by shared vertices and by shared edges. *)

SharesVertex(i, j) == SetOf(triangles[i]) \cap SetOf(triangles[j]) # {}

SharesEdge(i, j) == Cardinality(SetOf(triangles[i]) \cap SetOf(triangles[j])) >= 2

(* The triangles reachable from triangle 1 over Adjacent. *)
Component(Adjacent(_, _)) ==
    LET RECURSIVE Grow(_)
        Grow(S) ==
            LET more == { j \in 1..N : \E i \in S : Adjacent(i, j) }
            IN  IF more \subseteq S THEN S ELSE Grow(S \cup more)
    IN  Grow({1})

VertexConnected == N >= 1 /\ Component(SharesVertex) = 1..N

EdgeConnected == N >= 1 /\ Component(SharesEdge) = 1..N

----------------------------------------------------------------------------
(* C2.  Two triangles that share no vertex: the claim is that the outer    *)
(* loop stops and an unconnectable-input error surfaces, the cap is not    *)
(* raised again and again.  Stated for the caps of the model: the loop     *)
(* never stands at its head, result still None, with every round up to     *)
(* MaxUsage failed and the next cap ready.                                 *)
DisjointPair ==
    /\ N = 2
    /\ SetOf(triangles[1]) \cap SetOf(triangles[2]) = {}

C2_DisjointPairStops == DisjointPair => ~AllRoundsFailed

----------------------------------------------------------------------------
(* C3 as claimed.  Every non-empty input whose shares-a-vertex graph is    *)
(* connected is covered by some round: the search does not run out of      *)
(* rounds.                                                                 *)
C3_VertexConnectedReturns == VertexConnected => ~AllRoundsFailed

(* C3 as amended.  Every non-empty input whose shares-an-edge graph (two   *)
(* common vertices) is connected is covered by some round; a round fails   *)
(* for an input only if it is not of that kind or a later round succeeds.  *)
C3_EdgeConnectedReturns == EdgeConnected => ~AllRoundsFailed

(* An edge-connected input that two rounds failed on was covered by the    *)
(* third: a triangle with a neighbour on each of its three edges.          *)
C3_Witness ==
    /\ EdgeConnected
    /\ Returned
    /\ max_triangle_usage = 3

----------------------------------------------------------------------------
(* Strips within a cap, stated without the search: a strip is a sequence   *)
(* of vertices every window of which has the vertex set of an input        *)
(* triangle it is attributed to; it is within cap c when no triangle has   *)
(* more than c windows attributed, and covering when every triangle has    *)
(* one.  What matters of a strip for its continuations is its last two     *)
(* vertices and the attribution counts.                                    *)

Vertices == UNION { SetOf(triangles[i]) : i \in 1..N }

StripEnd(a, b, counts) == [a |-> a, b |-> b, counts |-> counts]

SeedEnds ==
    { StripEnd(p[2], p[3], [j \in 1..N |-> IF j = p[1] THEN 1 ELSE 0]) :
        p \in { q \in (1..N) \X Vertices \X Vertices :
                   q[2] # q[3] /\ { q[2], q[3] } \subseteq SetOf(triangles[q[1]]) } }

LongerEnds(e, c) ==
    { StripEnd(e.b, p[2], [e.counts EXCEPT ![p[1]] = @ + 1]) :
        p \in { q \in (1..N) \X Vertices :
                   /\ e.counts[q[1]] < c
                   /\ { e.a, e.b, q[2] } = SetOf(triangles[q[1]]) } }

StripEnds(c) ==
    LET RECURSIVE Grow(_, _)
        Grow(seen, frontier) ==
            IF frontier = {} THEN seen
            ELSE LET more == (UNION { LongerEnds(e, c) : e \in frontier }) \ seen
                 IN  Grow(seen \cup more, more)
    IN  Grow(SeedEnds, SeedEnds)

CoveringStripExists(c) ==
    \E e \in StripEnds(c) : \A i \in 1..N : e.counts[i] >= 1

(* C4.  Minimal cap: a round fails only if no covering strip within its    *)
(* cap exists, so find_strip returns in the round with the smallest cap    *)
(* that admits one; when a strip using every triangle once exists, the     *)
(* first round returns.                                                    *)
C4_MinimalCap ==
    /\ (pc = "loop" /\ usage > 1) => ~CoveringStripExists(usage - 1)
    /\ (Returned /\ N >= 1) =>
          /\ CoveringStripExists(max_triangle_usage)
          /\ \A c \in 1..(max_triangle_usage - 1) : ~CoveringStripExists(c)

(* The cap was raised to 2 because no strip within cap 1 exists, and the   *)
(* round with cap 2 returned.                                              *)
C4_Witness ==
    /\ Returned
    /\ max_triangle_usage = 2
    /\ ~CoveringStripExists(1)
    /\ CoveringStripExists(2)

----------------------------------------------------------------------------
(* C5 as claimed.  In every returned strip, every window after the first   *)
(* differs from the window before it in exactly one element, the appended  *)
(* vertex, and the two carried-over vertices are in both windows; for      *)
(* every cap, a triangle consumed twice in a row included.                 *)
C5_ExactlyOneNewVertex ==
    Returned =>
        \A k \in 4..Len(result.strip) :
            /\ Window(result.strip, k) \ Window(result.strip, k - 1) = { result.strip[k] }
            /\ { result.strip[k - 2], result.strip[k - 1] }
                   \subseteq Window(result.strip, k) \cap Window(result.strip, k - 1)

NoDuplicateTriangles ==
    \A i, j \in 1..N : i # j => SetOf(triangles[i]) # SetOf(triangles[j])

(* C5 as amended.  In every returned strip, the vertex appended for a      *)
(* window after the first differs from the two carried-over vertices, so   *)
(* every window has three distinct vertices; the window differs from the   *)
(* one before it in exactly that vertex when the strip was returned by     *)
(* the round with cap 1 for an input without two triangles of the same     *)
(* vertex set.  Otherwise a window may have the vertex set of the window   *)
(* before it.                                                              *)
C5_AppendedVertexIsNew ==
    Returned =>
        \A k \in 4..Len(result.strip) :
            /\ result.strip[k] \notin { result.strip[k - 2], result.strip[k - 1] }
            /\ Cardinality(Window(result.strip, k)) = 3
            /\ (max_triangle_usage = 1 /\ NoDuplicateTriangles) =>
                  Window(result.strip, k) \ Window(result.strip, k - 1) = { result.strip[k] }

(* A returned strip in which a window has the vertex set of the window     *)
(* before it.                                                              *)
C5_Witness ==
    /\ Returned
    /\ \E k \in 4..Len(result.strip) :
           Window(result.strip, k) = Window(result.strip, k - 1)

----------------------------------------------------------------------------
(* C9.  Determinism: a second call of find_strip with the same input       *)
(* returns the strip the first call returned, and no state of either call  *)
(* offers the search a choice: wherever a triangle is taken to extend the  *)
(* strip, the set difference of line 156 has exactly one element.          *)
C9_Determinism ==
    /\ (Returned /\ invocation = 2) => result = first_result
    /\ (pc = "ext" /\ Top.i <= N /\ ~UsedUp(Top.i) /\ IsSuperset(Top.i)) =>
          Cardinality(Difference(Top.i)) = 1

(* The second call returned, after a failed first round. *)
C9_Witness ==
    /\ Returned
    /\ invocation = 2
    /\ max_triangle_usage = 2
    /\ ~first_result.is_none

----------------------------------------------------------------------------
(* Entries to and returns from find_strip_internal. *)

AtEntry == pc = "call"

ReturnsNone == pc = "ret_none"

ReturnsStrip == pc = "ret_strip"

Sum(u) ==
    LET RECURSIVE Upto(_)
        Upto(n) == IF n = 0 THEN 0 ELSE u[n] + Upto(n - 1)
    IN  Upto(N)

(* C11.  Length invariant: at every entry to and every return from         *)
(* find_strip_internal, a non-empty current_strip has at least 3 vertices  *)
(* and 3 + (sum of the usage counters) - 1 of them; when current_strip is  *)
(* empty there, every usage counter is 0.                                  *)
C11_LengthInvariant ==
    (AtEntry \/ ReturnsNone \/ ReturnsStrip) =>
        IF current_strip = <<>>
        THEN \A i \in 1..N : used_triangles[i] = 0
        ELSE /\ Len(current_strip) >= 3
             /\ Len(current_strip) = 3 + Sum(used_triangles) - 1

(* An extension invocation returns None in a round with cap 2, the strip   *)
(* holding a seed and three more vertices.                                 *)
C11_Witness ==
    /\ ReturnsNone
    /\ stack # <<>>
    /\ max_triangle_usage = 2
    /\ Len(current_strip) = 6
    /\ Sum(used_triangles) = 4

----------------------------------------------------------------------------
(* The list object an invocation that has just returned was passed: the    *)
(* list of line 193 for the invocation find_strip made, the list the       *)
(* search works on for every other one.                                    *)
PassedStrip == IF stack = <<>> THEN tmp_triangle_strip ELSE current_strip

EnteredWith == entered[Len(entered)]

(* C13.  Backtracking contract: whenever an invocation of                  *)
(* find_strip_internal returns None, the invocation find_strip made        *)
(* included, the strip list and the usage counter it was passed have the   *)
(* contents they had on entry; whenever it returns a strip, the returned   *)
(* strip is the passed list, holding what the successful path put on it.   *)
C13_BacktrackingContract ==
    /\ ReturnsNone =>
          /\ PassedStrip = EnteredWith.strip
          /\ used_triangles = EnteredWith.used
    /\ ReturnsStrip =>
          /\ PassedStrip = current_strip
          /\ SubSeq(PassedStrip, 1, Len(EnteredWith.strip)) = EnteredWith.strip

----------------------------------------------------------------------------
NonDegenerate == \A i \in 1..N : Cardinality(SetOf(triangles[i])) = 3

LastThree == SubSeq(current_strip, Len(current_strip) - 2, Len(current_strip))

(* C16.  For an input whose triangles each have three distinct vertices,   *)
(* the last three vertices of a non-empty strip are pairwise distinct in   *)
(* every state of the search, and so every triangle that contains the      *)
(* last two vertices has exactly one vertex outside them.                  *)
C16_LastThreeDistinct ==
    (NonDegenerate /\ current_strip # <<>>) =>
        /\ Len(current_strip) >= 3
        /\ Cardinality(SetOf(LastThree)) = 3
        /\ \A i \in 1..N :
              PartOfTriangle \subseteq SetOf(triangles[i]) =>
                  Cardinality(SetOf(triangles[i]) \ PartOfTriangle) = 1

(* The extension loop stands at a triangle that contains the last two      *)
(* vertices of a strip that reuses an earlier vertex.                      *)
C16_Witness ==
    /\ pc = "ext"
    /\ Top.i <= N
    /\ ~UsedUp(Top.i)
    /\ IsSuperset(Top.i)
    /\ Len(current_strip) >= 5
    /\ Cardinality(SetOf(current_strip)) < Len(current_strip)

----------------------------------------------------------------------------
(* C18.  Empty input: find_strip([]) returns the empty strip from the      *)
(* round with cap 1; no seed is tried, nothing fails, and the loop does    *)
(* not run a second time.                                                  *)
C18_EmptyInput ==
    N = 0 =>
        /\ max_triangle_usage <= 1
        /\ pc \notin {"seed", "ext", "ret_none"}
        /\ pc = "ret_strip" => current_strip = <<>> /\ stack = <<>>
        /\ Returned =>
              /\ result = StripResult(<<>>)
              /\ max_triangle_usage = 1

(* find_strip([]) has returned. *)
C18_Witness == N = 0 /\ Returned

----------------------------------------------------------------------------
(* The coverage check has just succeeded: the stack still holds the seed   *)
(* and every extension that built the strip.                               *)
JustCovered == ReturnsStrip /\ Len(stack) = Len(current_strip) - 2

ProperPrefixes == 3..(Len(current_strip) - 1)

(* Every triangle has a window with its vertex set among the first k       *)
(* vertices of the strip.                                                  *)
PrefixCovers(k) ==
    \A i \in 1..N : \E w \in 3..k : Window(current_strip, w) = SetOf(triangles[i])

(* The usage counter as it was when the strip had k vertices. *)
UsageAtPrefix(k) == entered[k - 1].used

(* C17 as stated.  No redundant tail: in every strip returned for a        *)
(* non-empty input, the triangle consumed by the last window has usage     *)
(* exactly 1, and no proper prefix of length >= 3 already covers every     *)
(* input triangle.                                                         *)
C17_NoRedundantTail ==
    JustCovered =>
        /\ used_triangles[Top.i] = 1
        /\ \A k \in ProperPrefixes : ~PrefixCovers(k)

(* C17 amended.  The triangle consumed by the last window has usage        *)
(* exactly 1, at no proper prefix of length >= 3 did every triangle index  *)
(* have usage >= 1, and for an input in which no two triangles have the    *)
(* same vertex set no proper prefix has a window for every triangle.       *)
C17_NoRedundantPrefix ==
    JustCovered =>
        /\ used_triangles[Top.i] = 1
        /\ \A k \in ProperPrefixes :
              /\ entered[k - 1].strip = SubSeq(current_strip, 1, k)
              /\ \E i \in 1..N : UsageAtPrefix(k)[i] = 0
        /\ NoDuplicateTriangles => \A k \in ProperPrefixes : ~PrefixCovers(k)

(* A strip that consumed some triangle twice has just been found to cover  *)
(* an input of triangles with different vertex sets.                       *)
C17_Witness ==
    /\ JustCovered
    /\ NoDuplicateTriangles
    /\ max_triangle_usage >= 2
    /\ \E i \in 1..N : used_triangles[i] >= 2

----------------------------------------------------------------------------
(* The six orderings of a triangle (a, b, c) in the order C14 lists them. *)
ClaimedOrderings(t) ==
    << <<t[1], t[2], t[3]>>, <<t[1], t[3], t[2]>>, <<t[2], t[1], t[3]>>,
       <<t[2], t[3], t[1]>>, <<t[3], t[1], t[2]>>, <<t[3], t[2], t[1]>> >>

(* Some strip that continues the strip end e within cap c, e itself        *)
(* included, consumes every triangle.                                      *)
CoversFrom(e, c) ==
    LET RECURSIVE Grow(_, _)
        Grow(seen, frontier) ==
            IF frontier = {} THEN seen
            ELSE LET more == (UNION { LongerEnds(f, c) : f \in frontier }) \ seen
                 IN  Grow(seen \cup more, more)
    IN  \E f \in Grow({e}, {e}) : \A i \in 1..N : f.counts[i] >= 1

(* The usage counter before the d-th choice of the path on the stack. *)
CountsBefore(d) ==
    [j \in 1..N |-> Cardinality({ k \in 1..(d - 1) : stack[k].i = j })]

(* The strip ends of the seeds that come before the seed on the stack. *)
EarlierSeeds ==
    { StripEnd(ClaimedOrderings(triangles[q[1]])[q[2]][2],
               ClaimedOrderings(triangles[q[1]])[q[2]][3],
               [j \in 1..N |-> IF j = q[1] THEN 1 ELSE 0]) :
        q \in { r \in (1..N) \X (1..6) :
                   \/ r[1] < stack[1].i
                   \/ r[1] = stack[1].i /\ r[2] < stack[1].perm } }

(* The strip ends of the extensions by an eligible triangle of smaller     *)
(* index than the d-th choice on the stack, the strip before it having     *)
(* d + 1 vertices.                                                         *)
EarlierExtensions(d) ==
    { StripEnd(current_strip[d + 1], q[2], [CountsBefore(d) EXCEPT ![q[1]] = @ + 1]) :
        q \in { r \in (1..N) \X Vertices :
                   /\ r[1] < stack[d].i
                   /\ CountsBefore(d)[r[1]] < max_triangle_usage
                   /\ { current_strip[d], current_strip[d + 1] } \subseteq SetOf(triangles[r[1]])
                   /\ r[2] \in SetOf(triangles[r[1]]) \ { current_strip[d], current_strip[d + 1] } } }

(* C14.  Exploration order: the seed on the strip is the ordering of its   *)
(* triangle that C14 lists at the position of the seed loop; and the       *)
(* strip returned is the first covering strip in depth-first order: no     *)
(* covering strip within the cap goes through an earlier seed triangle, an *)
(* earlier ordering, or an eligible triangle of smaller index at the first *)
(* position where it leaves the returned strip.                            *)
C14_ExplorationOrder ==
    /\ (stack # <<>> /\ Len(current_strip) >= 3) =>
          SubSeq(current_strip, 1, 3) = ClaimedOrderings(triangles[stack[1].i])[stack[1].perm]
    /\ JustCovered =>
          /\ \A e \in EarlierSeeds : ~CoversFrom(e, max_triangle_usage)
          /\ \A d \in 2..Len(stack) :
                /\ stack[d].case = "ext"
                /\ { current_strip[d], current_strip[d + 1], current_strip[d + 2] }
                      = SetOf(triangles[stack[d].i])
                /\ \A e \in EarlierExtensions(d) : ~CoversFrom(e, max_triangle_usage)

(* A covering strip of at least six vertices was found after an eligible   *)
(* triangle of smaller index had been tried at some position and given up. *)
C14_Witness ==
    /\ JustCovered
    /\ Len(current_strip) >= 6
    /\ \E d \in 2..Len(stack) : EarlierExtensions(d) # {}

----------------------------------------------------------------------------
ErrorRaised == pc = "error"

(* The extension loop has just appended a vertex for the triangle at the   *)
(* top of the stack and called find_strip_internal.                        *)
JustExtended == AtEntry /\ stack # <<>> /\ Top.case = "ext"

(* The last two vertices of the strip before the last vertex was appended. *)
PreviousLastTwo ==
    { current_strip[Len(current_strip) - 1], current_strip[Len(current_strip) - 2] }

(* C12.  Eligibility in the extension case: a triangle extends the strip   *)
(* only if it contains the strip's last two vertices and has exactly one   *)
(* vertex outside them, which is the vertex appended; a triangle with zero *)
(* or more than one vertex outside them is skipped, so the search never    *)
(* ends with an error and never appends a vertex chosen arbitrarily.       *)
C12_Eligibility ==
    /\ ~ErrorRaised
    /\ JustExtended =>
          /\ PreviousLastTwo \subseteq SetOf(triangles[Top.i])
          /\ SetOf(triangles[Top.i]) \ PreviousLastTwo = { current_strip[Len(current_strip)] }

----------------------------------------------------------------------------
(* find_strip has called find_strip_internal with an empty strip and       *)
(* all-zero usage (line 195), and that call has returned.                  *)
RoundStarted == AtEntry /\ stack = <<>>

RoundReturned == (ReturnsNone \/ ReturnsStrip) /\ stack = <<>>

(* C15.  Every single round terminates: the search started with an empty   *)
(* strip and all-zero usage eventually returns a strip or None, and the    *)
(* strip never has more than 2 + N * cap vertices during the round.        *)
C15_RoundTerminates ==
    /\ [](Len(current_strip) <= 2 + N * max_triangle_usage)
    /\ (RoundStarted ~> RoundReturned)

(* A round with cap 2 over at least three triangles has returned None, and *)
(* the next round is about to start.                                       *)
C15_Witness ==
    /\ RoundReturned
    /\ ReturnsNone
    /\ N >= 3
    /\ max_triangle_usage = 2

=============================================================================
